---- MODULE Spec2Model ----
(***************************************************************************)
(* Runtime derived-type descriptions of the f18 Fortran runtime            *)
(* (runtime/derived-type.h, runtime/derived-type.cpp).                     *)
(*                                                                         *)
(* A DerivedType table is built once by its constructor from component and *)
(* type-bound-procedure arrays; Initialize, DestroyNonParentComponents and *)
(* DestroyScalarInstance then act on one scalar instance.  The model keeps *)
(* the constructed tables in `types` (a type pointer is an index into it,  *)
(* 0 is nullptr), the instance storage in `mem`, and records every call    *)
(* the last operation made, in program order, in `trace`.                  *)
(***************************************************************************)
EXTENDS Integers, Sequences, FiniteSets

VARIABLES types, mem, trace, call, crashed

vars == <<types, mem, trace, call, crashed>>

----------------------------------------------------------------------------
(* Bounds of the explored inputs.                                          *)

\* types in one inheritance chain world
MaxTypes == 3
\* types in the worlds that exercise Initialize
MaxInitTypes == 2
\* components of the table of a type that is only destroyed
MaxComps == 3
\* components of the table of a type that is initialized
MaxInitComps == 2
\* procedures of one table
MaxProcs == 2
\* the instance address a caller passes
Base == 1
\* cells of the instance storage
MemCells == 6

----------------------------------------------------------------------------
(* Flag values.                                                            *)

\* Component::Flag
PARENT == 1
PRIVATE == 2
IS_DESCRIPTOR == 4

\* TypeBoundProcedure::Flag
INITIALIZER == 1
ELEMENTAL == 2
ASSIGNMENT == 4
ASSUMED_RANK_FINAL == 8

\* DerivedType::Flag
SEQUENCE == 1
BIND_C == 2
FINALIZABLE == 4
INIT_ZERO == 8
INIT_COMPONENT == 16

\* (f & b) != 0 for a single-bit b
HasFlag(f, b) == (f \div b) % 2 = 1

\* f | b for a single-bit b
OrFlag(f, b) == IF HasFlag(f, b) THEN f ELSE f + b

\* the value of an uninitialized storage cell
Garbage == -1

----------------------------------------------------------------------------
(* Descriptors.  A static descriptor pointer is a record: null, or a       *)
(* descriptor with or without an addendum, whose derivedType() is a type   *)
(* pointer (0: nullptr).                                                    *)

NullDescriptor == [null |-> TRUE, addendum |-> FALSE, derivedType |-> 0]

StaticDescriptor(hasAddendum, dt) ==
  [null |-> FALSE, addendum |-> hasAddendum, derivedType |-> IF hasAddendum THEN dt ELSE 0]

\* Component accessors
IsParent(comp) == HasFlag(comp.flags_, PARENT)

IsDescriptor(comp) == HasFlag(comp.flags_, IS_DESCRIPTOR)

\* Component::Locate: the field's address
Locate(comp, dtInstance) == dtInstance + comp.offset_

----------------------------------------------------------------------------
(* DerivedType queries.                                                    *)

SizeInBytes(T) == T.bytes_

IsExtension(T) == T.components_ > 0 /\ IsParent(T.component_[1])

IsInitZero(T) == HasFlag(T.flags_, INIT_ZERO)

IsInitializable(T) ==
  \/ ~T.initializer_.null
  \/ T.initTBP_ >= 0
  \/ HasFlag(T.flags_, INIT_ZERO) \/ HasFlag(T.flags_, INIT_COMPONENT)

IsFinalizable(T) == HasFlag(T.flags_, FINALIZABLE)

IsSequence(T) == HasFlag(T.flags_, SEQUENCE)

IsBindC(T) == HasFlag(T.flags_, BIND_C)

\* TypeBoundProcedure::IsFinalForRank
IsFinalForRank(tbp, rank) ==
  HasFlag(tbp.flags, ASSUMED_RANK_FINAL) \/ (tbp.finalRank \div (2 ^ rank)) % 2 = 1

----------------------------------------------------------------------------
(* The constructor.  Array index j of the source is sequence index j + 1.  *)

RECURSIVE ScanProcedures(_, _, _, _)
\* the first loop of the constructor, from index j on: <<initTBP_, flags_>>
ScanProcedures(tbp, j, initTBP, flags) ==
  IF j >= Len(tbp) THEN <<initTBP, flags>>
  ELSE LET p == tbp[j + 1]
           i1 == IF HasFlag(p.flags, INITIALIZER) THEN j ELSE initTBP
           f1 == IF p.finalRank # 0 \/ HasFlag(p.flags, ASSUMED_RANK_FINAL)
                 THEN OrFlag(flags, FINALIZABLE) ELSE flags
       IN ScanProcedures(tbp, j + 1, i1, f1)

\* what one component adds to flags_ in the second loop
ScanComponent(ts, comp, flags) ==
  IF IsDescriptor(comp) THEN OrFlag(flags, INIT_ZERO)
  ELSE IF ~comp.staticDescriptor_.null
          /\ comp.staticDescriptor_.addendum
          /\ comp.staticDescriptor_.derivedType # 0
          /\ IsInitializable(ts[comp.staticDescriptor_.derivedType])
          /\ ~IsInitZero(ts[comp.staticDescriptor_.derivedType])
       THEN OrFlag(flags, INIT_COMPONENT)
       ELSE flags

RECURSIVE ScanComponents(_, _, _, _)
\* the second loop of the constructor, from index j on
ScanComponents(ts, ca, j, flags) ==
  IF j >= Len(ca) THEN flags
  ELSE ScanComponents(ts, ca, j + 1, ScanComponent(ts, ca[j + 1], flags))

\* mutant: || for && in the guard of the component scan
DerivedTypeScansUnlessBoth(ts, ca, tbp, init, sz) ==
  LET scan == ScanProcedures(tbp, 0, -1, 0)
      initTBP == scan[1]
      flags == IF init.null \/ initTBP < 0
               THEN ScanComponents(ts, ca, 0, scan[2])
               ELSE scan[2]
  IN [components_ |-> Len(ca), component_ |-> ca,
      typeBoundProcedures_ |-> Len(tbp), typeBoundProcedure_ |-> tbp,
      flags_ |-> flags, initializer_ |-> init, bytes_ |-> sz,
      initTBP_ |-> initTBP]

\* DerivedType::DerivedType; ts are the tables built so far
DerivedType(ts, ca, tbp, init, sz) ==
  LET scan == ScanProcedures(tbp, 0, -1, 0)
      initTBP == scan[1]
      flags == IF init.null /\ initTBP < 0
               THEN ScanComponents(ts, ca, 0, scan[2])
               ELSE scan[2]
  IN [components_ |-> Len(ca), component_ |-> ca,
      typeBoundProcedures_ |-> Len(tbp), typeBoundProcedure_ |-> tbp,
      flags_ |-> flags, initializer_ |-> init, bytes_ |-> sz,
      initTBP_ |-> initTBP]

----------------------------------------------------------------------------
(* Execution of one operation.  An execution state x is                    *)
(* [mem, trace, crashed]: the instance storage, the calls made so far in   *)
(* program order, and whether a RUNTIME_CHECK has ended the process.       *)

Event(op, t, j, addr, n, fin) ==
  [op |-> op, type |-> t, j |-> j, addr |-> addr, n |-> n, fin |-> fin]

Log(x, e) == [x EXCEPT !.trace = Append(@, e)]

\* std::memcpy(instance, initializer_, bytes_)
Memcpy(m, instance, image, n) ==
  [a \in DOMAIN m |->
     IF a >= instance /\ a < instance + n THEN image[a - instance + 1] ELSE m[a]]

\* std::memset(instance, 0, bytes_)
Memset(m, instance, n) ==
  [a \in DOMAIN m |-> IF a >= instance /\ a < instance + n THEN 0 ELSE m[a]]

RECURSIVE Initialize(_, _, _, _)
RECURSIVE InitializeComponents(_, _, _, _, _)

\* Descriptor::Initialize of a static descriptor on one sub-instance: the
\* nested type's Initialize, when the descriptor names a derived type
DescriptorInitialize(ts, desc, addr, x) ==
  IF desc.addendum /\ desc.derivedType # 0
  THEN Initialize(ts, desc.derivedType, addr, x)
  ELSE x

\* the loop of Initialize under INIT_COMPONENT, from index j on
InitializeComponents(ts, t, instance, j, x) ==
  LET T == ts[t] IN
  IF j >= T.components_ THEN x
  ELSE LET comp == T.component_[j + 1]
           x1 == IF ~comp.staticDescriptor_.null
                 THEN DescriptorInitialize(ts, comp.staticDescriptor_,
                        Locate(comp, instance),
                        Log(x, Event("Descriptor::Initialize", t, j,
                                     Locate(comp, instance), 0, FALSE)))
                 ELSE x
       IN InitializeComponents(ts, t, instance, j + 1, x1)

\* mutant: the initializer procedure is tried before the flat image
InitializeProcedureFirst(ts, t, instance, x) ==
  LET T == ts[t] IN
  IF T.initTBP_ >= 0 /\ T.typeBoundProcedure_[T.initTBP_ + 1].host # 0
  THEN Log(x, Event("f", t, T.initTBP_, instance, 0, FALSE))
  ELSE IF ~T.initializer_.null
  THEN [Log(x, Event("memcpy", t, -1, instance, T.bytes_, FALSE))
          EXCEPT !.mem = Memcpy(x.mem, instance, T.initializer_.image, T.bytes_)]
  ELSE LET x1 == IF HasFlag(T.flags_, INIT_ZERO)
                 THEN [Log(x, Event("memset", t, -1, instance, T.bytes_, FALSE))
                         EXCEPT !.mem = Memset(x.mem, instance, T.bytes_)]
                 ELSE x
       IN IF HasFlag(T.flags_, INIT_COMPONENT)
          THEN InitializeComponents(ts, t, instance, 0, x1)
          ELSE x1

\* mutant: the zero fill follows the components' initialization
InitializeZeroLast(ts, t, instance, x) ==
  LET T == ts[t] IN
  IF ~T.initializer_.null
  THEN [Log(x, Event("memcpy", t, -1, instance, T.bytes_, FALSE))
          EXCEPT !.mem = Memcpy(x.mem, instance, T.initializer_.image, T.bytes_)]
  ELSE IF T.initTBP_ >= 0 /\ T.typeBoundProcedure_[T.initTBP_ + 1].host # 0
  THEN Log(x, Event("f", t, T.initTBP_, instance, 0, FALSE))
  ELSE LET x1 == IF HasFlag(T.flags_, INIT_COMPONENT)
                 THEN InitializeComponents(ts, t, instance, 0, x)
                 ELSE x
       IN IF HasFlag(T.flags_, INIT_ZERO)
          THEN [Log(x1, Event("memset", t, -1, instance, T.bytes_, FALSE))
                  EXCEPT !.mem = Memset(x1.mem, instance, T.bytes_)]
          ELSE x1

\* DerivedType::Initialize
Initialize(ts, t, instance, x) ==
  LET T == ts[t] IN
  IF ~T.initializer_.null
  THEN [Log(x, Event("memcpy", t, -1, instance, T.bytes_, FALSE))
          EXCEPT !.mem = Memcpy(x.mem, instance, T.initializer_.image, T.bytes_)]
  ELSE IF T.initTBP_ >= 0 /\ T.typeBoundProcedure_[T.initTBP_ + 1].host # 0
  THEN Log(x, Event("f", t, T.initTBP_, instance, 0, FALSE))
  ELSE LET x1 == IF HasFlag(T.flags_, INIT_ZERO)
                 THEN [Log(x, Event("memset", t, -1, instance, T.bytes_, FALSE))
                         EXCEPT !.mem = Memset(x.mem, instance, T.bytes_)]
                 ELSE x
       IN IF HasFlag(T.flags_, INIT_COMPONENT)
          THEN InitializeComponents(ts, t, instance, 0, x1)
          ELSE x1

\* mutant: the parent component is not skipped
DestroyComponentNoSkip(t, comp, j, instance, finalize, x) ==
  IF IsDescriptor(comp)
  THEN Log(x, Event("Descriptor::Deallocate", t, j, Locate(comp, instance), 0, finalize))
  ELSE IF ~comp.staticDescriptor_.null
  THEN Log(x, Event("Descriptor::Destroy", t, j, Locate(comp, instance), 0, finalize))
  ELSE x

\* one iteration of the loop of DestroyNonParentComponents
DestroyComponent(t, comp, j, instance, finalize, x) ==
  IF IsParent(comp) THEN x
  ELSE IF IsDescriptor(comp)
  THEN Log(x, Event("Descriptor::Deallocate", t, j, Locate(comp, instance), 0, finalize))
  ELSE IF ~comp.staticDescriptor_.null
  THEN Log(x, Event("Descriptor::Destroy", t, j, Locate(comp, instance), 0, finalize))
  ELSE x

RECURSIVE DestroyComponentsFrom(_, _, _, _, _, _)
\* the loop of DestroyNonParentComponents, from index j on
DestroyComponentsFrom(ts, t, instance, finalize, j, x) ==
  IF j >= ts[t].components_ THEN x
  ELSE DestroyComponentsFrom(ts, t, instance, finalize, j + 1,
         DestroyComponent(t, ts[t].component_[j + 1], j, instance, finalize, x))

\* DerivedType::DestroyNonParentComponents
DestroyNonParentComponents(ts, t, instance, finalize, x) ==
  DestroyComponentsFrom(ts, t, instance, finalize, 0,
    Log(x, Event("DestroyNonParentComponents", t, -1, instance, 0, finalize)))

\* mutant: every procedure that is final for rank 0 is called
FinalizeAnyFinalForRank0(t, tbp, j, instance, x) ==
  IF HasFlag(tbp.flags, ELEMENTAL) /\ IsFinalForRank(tbp, 0) /\ tbp.host # 0
  THEN Log(x, Event("f", t, j, instance, 0, TRUE))
  ELSE x

\* one iteration of the finalizer loop of DestroyScalarInstance
Finalize(t, tbp, j, instance, x) ==
  IF HasFlag(tbp.flags, ELEMENTAL) /\ tbp.finalRank % 2 = 1 /\ tbp.host # 0
  THEN Log(x, Event("f", t, j, instance, 0, TRUE))
  ELSE x

RECURSIVE FinalizeFrom(_, _, _, _, _)
\* the finalizer loop of DestroyScalarInstance, from index j on
FinalizeFrom(ts, t, instance, j, x) ==
  IF j >= ts[t].typeBoundProcedures_ THEN x
  ELSE FinalizeFrom(ts, t, instance, j + 1,
         Finalize(t, ts[t].typeBoundProcedure_[j + 1], j, instance, x))

\* RUNTIME_CHECK failed: Terminator::CheckFailed does not return
Crash(x, t, check, instance) ==
  [Log(x, Event("RUNTIME_CHECK", t, check, instance, 0, FALSE)) EXCEPT !.crashed = TRUE]

RECURSIVE DestroyScalarInstance(_, _, _, _, _)

\* mutant: the parent type is destroyed before the level's own work
DestroyScalarInstanceParentFirst(ts, t, instance, finalize, x) ==
  LET T == ts[t]
      x0 == Log(x, Event("DestroyScalarInstance", t, -1, instance, 0, finalize))
      staticParentDescriptor == T.component_[1].staticDescriptor_
      xp == IF ~IsExtension(T) THEN x0
            ELSE IF staticParentDescriptor.null THEN Crash(x0, t, 1, instance)
            ELSE IF ~staticParentDescriptor.addendum THEN Crash(x0, t, 2, instance)
            ELSE IF staticParentDescriptor.derivedType = 0 THEN Crash(x0, t, 3, instance)
            ELSE DestroyScalarInstance(ts, staticParentDescriptor.derivedType,
                                       instance, finalize, x0)
      x1 == IF finalize /\ IsFinalizable(T)
            THEN FinalizeFrom(ts, t, instance, 0, xp)
            ELSE xp
  IN IF xp.crashed THEN xp
     ELSE DestroyNonParentComponents(ts, t, instance, finalize, x1)

\* mutant: an unusable parent component is skipped instead of being fatal
DestroyScalarInstanceLenient(ts, t, instance, finalize, x) ==
  LET T == ts[t]
      x0 == Log(x, Event("DestroyScalarInstance", t, -1, instance, 0, finalize))
      x1 == IF finalize /\ IsFinalizable(T)
            THEN FinalizeFrom(ts, t, instance, 0, x0)
            ELSE x0
      x2 == DestroyNonParentComponents(ts, t, instance, finalize, x1)
      staticParentDescriptor == T.component_[1].staticDescriptor_
  IN IF IsExtension(T) /\ ~staticParentDescriptor.null
        /\ staticParentDescriptor.addendum /\ staticParentDescriptor.derivedType # 0
     THEN DestroyScalarInstance(ts, staticParentDescriptor.derivedType,
                                instance, finalize, x2)
     ELSE x2

\* mutant: the parent component is checked before the level's own work
DestroyScalarInstanceCheckFirst(ts, t, instance, finalize, x) ==
  LET T == ts[t]
      x0 == Log(x, Event("DestroyScalarInstance", t, -1, instance, 0, finalize))
      staticParentDescriptor == T.component_[1].staticDescriptor_
      x1 == IF finalize /\ IsFinalizable(T)
            THEN FinalizeFrom(ts, t, instance, 0, x0)
            ELSE x0
      x2 == DestroyNonParentComponents(ts, t, instance, finalize, x1)
  IN IF ~IsExtension(T) THEN x2
     ELSE IF staticParentDescriptor.null THEN Crash(x0, t, 1, instance)
     ELSE IF ~staticParentDescriptor.addendum THEN Crash(x0, t, 2, instance)
     ELSE IF staticParentDescriptor.derivedType = 0 THEN Crash(x0, t, 3, instance)
     ELSE DestroyScalarInstance(ts, staticParentDescriptor.derivedType,
                                instance, finalize, x2)

\* DerivedType::DestroyScalarInstance
DestroyScalarInstance(ts, t, instance, finalize, x) ==
  LET T == ts[t]
      x0 == Log(x, Event("DestroyScalarInstance", t, -1, instance, 0, finalize))
      x1 == IF finalize /\ IsFinalizable(T)
            THEN FinalizeFrom(ts, t, instance, 0, x0)
            ELSE x0
      x2 == DestroyNonParentComponents(ts, t, instance, finalize, x1)
  IN IF IsExtension(T)
     THEN LET staticParentDescriptor == T.component_[1].staticDescriptor_ IN
          IF staticParentDescriptor.null THEN Crash(x2, t, 1, instance)
          ELSE IF ~staticParentDescriptor.addendum THEN Crash(x2, t, 2, instance)
          ELSE IF staticParentDescriptor.derivedType = 0 THEN Crash(x2, t, 3, instance)
          ELSE DestroyScalarInstance(ts, staticParentDescriptor.derivedType,
                                     instance, finalize, x2)
     ELSE x2

\* mutant: = for |=
set_sequenceAssigned(T) == [T EXCEPT !.flags_ = SEQUENCE]

\* DerivedType::set_sequence, set_bind_c
set_sequence(T) == [T EXCEPT !.flags_ = OrFlag(@, SEQUENCE)]

set_bind_c(T) == [T EXCEPT !.flags_ = OrFlag(@, BIND_C)]

----------------------------------------------------------------------------
(* The state machine.                                                      *)

\* storage a caller hands to an operation: nothing in it is initialized
FreshMem == [a \in 0 .. MemCells - 1 |-> Garbage]

Start == [mem |-> FreshMem, trace |-> <<>>, crashed |-> FALSE]

NoCall == [op |-> "none", type |-> 0, instance |-> 0, finalize |-> FALSE]

Init ==
  /\ types = <<>>
  /\ mem = FreshMem
  /\ trace = <<>>
  /\ call = NoCall
  /\ crashed = FALSE

\* a table is constructed from its arrays
Construct(ca, tbp, init, sz) ==
  /\ ~crashed
  /\ types' = Append(types, DerivedType(types, ca, tbp, init, sz))
  /\ mem' = FreshMem
  /\ trace' = <<>>
  /\ call' = NoCall
  /\ UNCHANGED crashed

Finish(op, t, instance, finalize, r) ==
  /\ mem' = r.mem
  /\ trace' = r.trace
  /\ crashed' = r.crashed
  /\ call' = [op |-> op, type |-> t, instance |-> instance, finalize |-> finalize]
  /\ UNCHANGED types

CallInitialize(t, instance) ==
  /\ ~crashed
  /\ t \in 1 .. Len(types)
  /\ instance + types[t].bytes_ <= MemCells
  /\ Finish("Initialize", t, instance, FALSE, Initialize(types, t, instance, Start))

CallDestroyNonParentComponents(t, instance, finalize) ==
  /\ ~crashed
  /\ t \in 1 .. Len(types)
  /\ instance + types[t].bytes_ <= MemCells
  /\ Finish("DestroyNonParentComponents", t, instance, finalize,
            DestroyNonParentComponents(types, t, instance, finalize, Start))

CallDestroyScalarInstance(t, instance, finalize) ==
  /\ ~crashed
  /\ t \in 1 .. Len(types)
  /\ instance + types[t].bytes_ <= MemCells
  /\ Finish("DestroyScalarInstance", t, instance, finalize,
            DestroyScalarInstance(types, t, instance, finalize, Start))

CallSetSequence(t) ==
  /\ ~crashed
  /\ t \in 1 .. Len(types)
  /\ types' = [types EXCEPT ![t] = set_sequence(@)]
  /\ UNCHANGED <<mem, trace, call, crashed>>

CallSetBindC(t) ==
  /\ ~crashed
  /\ t \in 1 .. Len(types)
  /\ types' = [types EXCEPT ![t] = set_bind_c(@)]
  /\ UNCHANGED <<mem, trace, call, crashed>>

----------------------------------------------------------------------------
(* The tables the constructor is given.  A generator lays components out   *)
(* one after the other: a component of derived type takes the bytes of its *)
(* type, any other component one cell; a table's instance size is the sum  *)
(* (one cell for a type without components).                               *)

Component(flags, desc) == [flags_ |-> flags, staticDescriptor_ |-> desc]

TypeBoundProcedure(flags, finalRank, host) ==
  [flags |-> flags, finalRank |-> finalRank, host |-> host]

ComponentBytes(ts, c) ==
  IF ~IsDescriptor(c) /\ ~c.staticDescriptor_.null
     /\ c.staticDescriptor_.addendum /\ c.staticDescriptor_.derivedType # 0
  THEN ts[c.staticDescriptor_.derivedType].bytes_
  ELSE 1

RECURSIVE EndOffset(_, _, _)
\* the first byte after component j (1-based) of cs
EndOffset(ts, cs, j) ==
  IF j = 0 THEN 0 ELSE EndOffset(ts, cs, j - 1) + ComponentBytes(ts, cs[j])

Layout(ts, cs) ==
  [j \in 1 .. Len(cs) |->
     [flags_ |-> cs[j].flags_, staticDescriptor_ |-> cs[j].staticDescriptor_,
      offset_ |-> EndOffset(ts, cs, j - 1)]]

LayoutBytes(ts, cs) == IF Len(cs) = 0 THEN 1 ELSE EndOffset(ts, cs, Len(cs))

SeqsUpTo(S, n) == UNION {[1 .. k -> S] : k \in 0 .. n}

\* const char *init: nullptr, or a flat image of sz bytes
NullImage == [null |-> TRUE, image |-> <<>>]

FlatImage(sz) == [null |-> FALSE, image |-> [i \in 1 .. sz |-> i]]

\* descriptors of a component that names no usable type
BrokenDescriptors ==
  {NullDescriptor, StaticDescriptor(FALSE, 0), StaticDescriptor(TRUE, 0)}

TypeDescriptors(ts) == {StaticDescriptor(TRUE, u) : u \in 1 .. Len(ts)}

\* the descriptor of the type constructed last
LatestDescriptor(ts) == {StaticDescriptor(TRUE, u) : u \in {Len(ts)} \ {0}}

\* inheritance chains: a new type is a base type, or extends the latest type,
\* or has a parent component that names no usable type
ChainParents(ts) ==
  {<<>>} \cup {<<Component(PARENT, d)>> : d \in BrokenDescriptors \cup LatestDescriptor(ts)}

\* a chain type has one own component or none, and one finalizer or none
ChainOwn == {<<>>, <<Component(IS_DESCRIPTOR, NullDescriptor)>>}

ChainProcs == {<<>>, <<TypeBoundProcedure(ELEMENTAL, 1, 1)>>}

ConstructChainType ==
  /\ Len(types) < MaxTypes
  /\ \E par \in ChainParents(types), own \in ChainOwn, tbp \in ChainProcs :
        Construct(Layout(types, par \o own), tbp, NullImage,
                  LayoutBytes(types, par \o own))

\* one type with any procedure table
ProcKinds ==
  {TypeBoundProcedure(e + a, r, h) :
     e \in {0, ELEMENTAL}, a \in {0, ASSUMED_RANK_FINAL}, r \in 0 .. 2, h \in 0 .. 1}

ProcWorldComps == {<<>>, <<Component(IS_DESCRIPTOR, NullDescriptor)>>}

ConstructProcType ==
  /\ Len(types) < 1
  /\ \E cs \in ProcWorldComps, tbp \in SeqsUpTo(ProcKinds, MaxProcs) :
        Construct(Layout(types, cs), tbp, NullImage, LayoutBytes(types, cs))

\* one type with any component table
CompKinds ==
  {Component(p + d, s) :
     p \in {0, PARENT}, d \in {0, IS_DESCRIPTOR},
     s \in {NullDescriptor, StaticDescriptor(FALSE, 0)}}

ConstructCompType ==
  /\ Len(types) < 1
  /\ \E cs \in SeqsUpTo(CompKinds, MaxComps) :
        Construct(Layout(types, cs), <<>>, NullImage, LayoutBytes(types, cs))

\* types that nest: components that are descriptors or of an earlier type
InitCompKinds(ts) ==
  {Component(IS_DESCRIPTOR, NullDescriptor)} \cup {Component(0, d) : d \in TypeDescriptors(ts)}

\* no initializer; one without a host entry point; one that follows a finalizer
InitProcTables ==
  {<<>>,
   <<TypeBoundProcedure(INITIALIZER, 0, 0)>>,
   <<TypeBoundProcedure(ELEMENTAL, 1, 1), TypeBoundProcedure(INITIALIZER, 0, 1)>>}

ConstructInitType ==
  /\ Len(types) < MaxInitTypes
  /\ \E cs \in SeqsUpTo(InitCompKinds(types), MaxInitComps),
        tbp \in InitProcTables, hasImage \in BOOLEAN :
        Construct(Layout(types, cs), tbp,
                  IF hasImage THEN FlatImage(LayoutBytes(types, cs)) ELSE NullImage,
                  LayoutBytes(types, cs))

DoInitialize == \E t \in 1 .. Len(types) : CallInitialize(t, Base)

DoDestroyNonParentComponents ==
  \E t \in 1 .. Len(types), f \in BOOLEAN : CallDestroyNonParentComponents(t, Base, f)

DoDestroyScalarInstance ==
  \E t \in 1 .. Len(types), f \in BOOLEAN : CallDestroyScalarInstance(t, Base, f)

DoSetSequence == \E t \in 1 .. Len(types) : CallSetSequence(t)

DoSetBindC == \E t \in 1 .. Len(types) : CallSetBindC(t)

\* inheritance chains under destruction
Next == ConstructChainType \/ DoDestroyScalarInstance

Spec == Init /\ [][Next]_vars

\* one type, any procedure table, every operation
NextProcs ==
  \/ ConstructProcType
  \/ DoInitialize
  \/ DoDestroyNonParentComponents
  \/ DoDestroyScalarInstance
  \/ DoSetSequence
  \/ DoSetBindC

SpecProcs == Init /\ [][NextProcs]_vars

\* one type, any component table
NextComps == ConstructCompType \/ DoDestroyNonParentComponents

SpecComps == Init /\ [][NextComps]_vars

\* nested types under initialization
NextInit == ConstructInitType \/ DoInitialize

SpecInit == Init /\ [][NextInit]_vars

----------------------------------------------------------------------------
(* Vocabulary of the properties.                                           *)

CalledType == types[call.type]

Indices(op) == {i \in DOMAIN trace : trace[i].op = op}

Calls(op) == SelectSeq(trace, LAMBDA e : e.op = op)

\* table indices of the procedures flagged elemental with bit 0 of finalRank set
ElementalRank0(T) ==
  {j \in 0 .. T.typeBoundProcedures_ - 1 :
     /\ HasFlag(T.typeBoundProcedure_[j + 1].flags, ELEMENTAL)
     /\ T.typeBoundProcedure_[j + 1].finalRank % 2 = 1}

\* those of them that have a host entry point
HostedRank0(T) == {j \in ElementalRank0(T) : T.typeBoundProcedure_[j + 1].host # 0}

\* the procedures of type u called in the trace are exactly those of S, each
\* once, in table order, on the instance of the call
CallsExactly(u, S) ==
  /\ \A j \in S : Cardinality({i \in Indices("f") : trace[i].type = u /\ trace[i].j = j}) = 1
  /\ \A i \in Indices("f") :
        trace[i].type = u => trace[i].j \in S /\ trace[i].addr = call.instance
  /\ \A i, k \in Indices("f") :
        (trace[i].type = u /\ trace[k].type = u /\ i < k) => trace[i].j < trace[k].j

\* every procedure call of type u precedes u's DestroyNonParentComponents
FinalizersBeforeComponents(u) ==
  \A i \in Indices("f"), k \in Indices("DestroyNonParentComponents") :
     (trace[i].type = u /\ trace[k].type = u) => i < k

HasValidParent(t) ==
  /\ IsExtension(types[t])
  /\ ~types[t].component_[1].staticDescriptor_.null
  /\ types[t].component_[1].staticDescriptor_.addendum
  /\ types[t].component_[1].staticDescriptor_.derivedType # 0

ParentOf(t) == types[t].component_[1].staticDescriptor_.derivedType

RECURSIVE ChainOf(_)
\* t, its parent, ... down to the first type without a usable parent
ChainOf(t) == IF HasValidParent(t) THEN <<t>> \o ChainOf(ParentOf(t)) ELSE <<t>>

Last(q) == q[Len(q)]

\* the chain of t ends in a type that is not an extension
WellFormedChain(t) == ~IsExtension(types[Last(ChainOf(t))])

Position(q, u) == CHOOSE k \in DOMAIN q : q[k] = u

\* each level of chain q had DestroyNonParentComponents called exactly once,
\* on the instance of the call, in the order of q, and nothing else had
LevelsDestroyedInOrder(q) ==
  LET D == Calls("DestroyNonParentComponents") IN
  /\ Len(D) = Len(q)
  /\ \A k \in DOMAIN q :
        D[k].type = q[k] /\ D[k].addr = call.instance /\ D[k].fin = call.finalize

\* each level's finalizers ran, before its components and before the
\* finalizers of every ancestor level
LevelsFinalizedInOrder(q) ==
  /\ \A k \in DOMAIN q :
        /\ CallsExactly(q[k], IF call.finalize /\ IsFinalizable(types[q[k]])
                              THEN HostedRank0(types[q[k]]) ELSE {})
        /\ FinalizersBeforeComponents(q[k])
  /\ \A i \in Indices("f") : \E k \in DOMAIN q : q[k] = trace[i].type
  /\ \A i, k \in Indices("f") :
        Position(q, trace[i].type) < Position(q, trace[k].type) => i < k

----------------------------------------------------------------------------
(* Properties of inheritance chains (Spec).                                *)

\* C1: DestroyScalarInstance(instance, finalize = true) on a well-formed chain
\* T_n -> ... -> T_0 calls DestroyNonParentComponents exactly once per level,
\* on the same instance, most derived level first; each level's finalizers
\* run before that level's components and before any ancestor's finalizers;
\* and the call returns.
C1_ChainDestroyedDerivedToBase ==
  (call.op = "DestroyScalarInstance" /\ call.finalize /\ WellFormedChain(call.type))
    => /\ ~crashed
       /\ LevelsDestroyedInOrder(ChainOf(call.type))
       /\ LevelsFinalizedInOrder(ChainOf(call.type))

\* a grandchild -> child -> base chain, a finalizer at every level, destroyed
C1_Witness ==
  /\ call.op = "DestroyScalarInstance" /\ call.finalize
  /\ WellFormedChain(call.type)
  /\ Len(ChainOf(call.type)) = 3
  /\ Len(Calls("f")) = 3
  /\ Len(Calls("Descriptor::Deallocate")) = 3
  /\ ~crashed

\* C6: DestroyScalarInstance on an extended type whose parent component has no
\* static descriptor, no addendum or a null nested type ends in the fatal
\* check: no DestroyScalarInstance of another type is entered and the call
\* does not return.
C6_BrokenParentIsFatal ==
  (call.op = "DestroyScalarInstance"
     /\ IsExtension(CalledType) /\ ~HasValidParent(call.type))
    => /\ crashed
       /\ Last(trace).op = "RUNTIME_CHECK"
       /\ Last(trace).type = call.type
       /\ \A i \in Indices("DestroyScalarInstance") : trace[i].type = call.type
       /\ Cardinality(Indices("DestroyScalarInstance")) = 1

\* an extended type whose parent descriptor has an addendum naming no type, destroyed
C6_Witness ==
  /\ call.op = "DestroyScalarInstance"
  /\ IsExtension(CalledType) /\ ~HasValidParent(call.type)
  /\ CalledType.component_[1].staticDescriptor_ = StaticDescriptor(TRUE, 0)
  /\ crashed

----------------------------------------------------------------------------
(* Properties of one level of destruction (SpecProcs, SpecComps).          *)

\* C7 as stated: at one level of DestroyScalarInstance the procedures called
\* are exactly those flagged elemental with bit 0 of finalRank set, each
\* once, in table order, on the instance, before
\* DestroyNonParentComponents; none when finalize is false or the type is
\* not finalizable.
C7_EveryElementalRank0Called ==
  call.op = "DestroyScalarInstance"
    => /\ CallsExactly(call.type, IF call.finalize /\ IsFinalizable(CalledType)
                                  THEN ElementalRank0(CalledType) ELSE {})
       /\ FinalizersBeforeComponents(call.type)

\* C7 amended: ... exactly those flagged elemental with bit 0 of finalRank set
\* and a non-null host entry point ...
C7_EveryHostedElementalRank0Called ==
  call.op = "DestroyScalarInstance"
    => /\ CallsExactly(call.type, IF call.finalize /\ IsFinalizable(CalledType)
                                  THEN HostedRank0(CalledType) ELSE {})
       /\ FinalizersBeforeComponents(call.type)
       /\ Cardinality(Indices("DestroyNonParentComponents")) = 1

\* two finalizers called in table order, then the components destroyed
C7_Witness ==
  /\ call.op = "DestroyScalarInstance" /\ call.finalize
  /\ Len(Calls("f")) = 2
  /\ Len(Calls("Descriptor::Deallocate")) = 1

\* C9: at all times IsFinalizable() is true iff some type-bound procedure has
\* a nonzero finalRank or the assumed-rank-final flag.
C9_FinalizableIffSomeFinal ==
  \A t \in DOMAIN types :
     IsFinalizable(types[t])
       <=> \E j \in DOMAIN types[t].typeBoundProcedure_ :
              \/ types[t].typeBoundProcedure_[j].finalRank # 0
              \/ HasFlag(types[t].typeBoundProcedure_[j].flags, ASSUMED_RANK_FINAL)

\* a finalizable type, both attributes set, then destroyed
C9_Witness ==
  /\ call.op = "DestroyScalarInstance"
  /\ IsFinalizable(CalledType) /\ IsSequence(CalledType) /\ IsBindC(CalledType)

\* the components DestroyNonParentComponents acts on
Visited(T) ==
  {j \in 0 .. T.components_ - 1 :
     /\ ~IsParent(T.component_[j + 1])
     /\ IsDescriptor(T.component_[j + 1]) \/ ~T.component_[j + 1].staticDescriptor_.null}

\* C8: DestroyNonParentComponents visits every component not flagged parent
\* exactly once, in declaration order, and no parent component: a descriptor
\* component is deallocated, any other with a static descriptor is destroyed
\* through it at instance + offset, both with the caller's finalize flag; a
\* component with neither is left alone.
C8_NonParentComponentsVisitedOnce ==
  call.op = "DestroyNonParentComponents"
    => /\ trace[1].op = "DestroyNonParentComponents"
       /\ \A j \in Visited(CalledType) :
             Cardinality({i \in 2 .. Len(trace) : trace[i].j = j}) = 1
       /\ \A i \in 2 .. Len(trace) :
             /\ trace[i].j \in Visited(CalledType)
             /\ trace[i].op = IF IsDescriptor(CalledType.component_[trace[i].j + 1])
                               THEN "Descriptor::Deallocate" ELSE "Descriptor::Destroy"
             /\ trace[i].addr = call.instance + CalledType.component_[trace[i].j + 1].offset_
             /\ trace[i].fin = call.finalize
       /\ \A i, k \in 2 .. Len(trace) : i < k => trace[i].j < trace[k].j

\* a parent component skipped, a descriptor deallocated and a nested value destroyed
C8_Witness ==
  /\ call.op = "DestroyNonParentComponents" /\ call.finalize
  /\ \E j \in DOMAIN CalledType.component_ :
        /\ IsParent(CalledType.component_[j])
        /\ ~CalledType.component_[j].staticDescriptor_.null
  /\ Len(Calls("Descriptor::Deallocate")) = 1
  /\ Len(Calls("Descriptor::Destroy")) = 1

----------------------------------------------------------------------------
(* Properties of Initialize (SpecInit).                                    *)

InInstance(a) == a >= call.instance /\ a < call.instance + SizeInBytes(CalledType)

Untouched == \A a \in DOMAIN mem : mem[a] = Garbage

\* table indices of the procedures flagged initializer
Initializers(T) ==
  {j \in 0 .. T.typeBoundProcedures_ - 1 :
     HasFlag(T.typeBoundProcedure_[j + 1].flags, INITIALIZER)}

\* C2: with a non-null flat image, Initialize leaves the first SizeInBytes()
\* bytes of the instance equal to the image and does nothing else, whatever
\* procedures and components the type has.
C2_FlatImageCopiedVerbatim ==
  (call.op = "Initialize" /\ ~CalledType.initializer_.null)
    => /\ \A a \in DOMAIN mem :
             mem[a] = IF InInstance(a)
                      THEN CalledType.initializer_.image[a - call.instance + 1]
                      ELSE Garbage
       /\ Len(trace) = 1
       /\ trace[1].op = "memcpy"
       /\ trace[1].addr = call.instance
       /\ trace[1].n = SizeInBytes(CalledType)

\* an image copied over a type that also has an initializer procedure, a
\* descriptor component and a component of an initializable type
C2_Witness ==
  /\ call.op = "Initialize" /\ ~CalledType.initializer_.null
  /\ CalledType.initTBP_ >= 0
  /\ CalledType.typeBoundProcedure_[CalledType.initTBP_ + 1].host # 0
  /\ \E j \in DOMAIN CalledType.component_ : IsDescriptor(CalledType.component_[j])
  /\ \E j \in DOMAIN CalledType.component_ :
        /\ CalledType.component_[j].staticDescriptor_.derivedType # 0
        /\ IsInitializable(types[CalledType.component_[j].staticDescriptor_.derivedType])
  /\ mem[call.instance] # Garbage

RECURSIVE HoldsDefault(_, _)
\* the instance of type t at addr holds its default value: the image of a
\* type that has one; what its initializer procedure made of it; and
\* otherwise a zero descriptor in every descriptor component and the default
\* value in every component of derived type
HoldsDefault(t, addr) ==
  LET T == types[t] IN
  IF ~T.initializer_.null
  THEN \A i \in 1 .. T.bytes_ : mem[addr + i - 1] = T.initializer_.image[i]
  ELSE IF T.initTBP_ >= 0
  THEN T.typeBoundProcedure_[T.initTBP_ + 1].host # 0
         => \E i \in Indices("f") :
               trace[i].type = t /\ trace[i].j = T.initTBP_ /\ trace[i].addr = addr
  ELSE \A j \in DOMAIN T.component_ :
         LET comp == T.component_[j] IN
         IF IsDescriptor(comp) THEN mem[addr + comp.offset_] = 0
         ELSE IF comp.staticDescriptor_.derivedType # 0
         THEN HoldsDefault(comp.staticDescriptor_.derivedType, addr + comp.offset_)
         ELSE TRUE

\* C4: after Initialize on a type with no flat image and no initializer
\* procedure every field holds its default value at every nesting depth: the
\* descriptor components reached through components of derived type are
\* zeroed too.
C4_EveryFieldHoldsDefault ==
  (call.op = "Initialize" /\ CalledType.initializer_.null /\ CalledType.initTBP_ < 0)
    => HoldsDefault(call.type, call.instance)

\* C5: with no flat image, no procedure flagged initializer and a descriptor
\* component, Initialize zero-fills all SizeInBytes() bytes of the instance,
\* and does so before any component is initialized.
C5_ZeroFillFirst ==
  (call.op = "Initialize" /\ CalledType.initializer_.null
     /\ Initializers(CalledType) = {}
     /\ \E j \in DOMAIN CalledType.component_ : IsDescriptor(CalledType.component_[j]))
    => /\ trace[1].op = "memset"
       /\ trace[1].type = call.type
       /\ trace[1].addr = call.instance
       /\ trace[1].n = SizeInBytes(CalledType)
       /\ \A i \in 2 .. Len(trace) : trace[i].type = call.type => trace[i].op # "memset"
       /\ \A a \in DOMAIN mem :
             IF InInstance(a)
             THEN \/ mem[a] = 0
                  \/ \E i \in 2 .. Len(trace) :
                        /\ trace[i].op \in {"memcpy", "memset"}
                        /\ a >= trace[i].addr /\ a < trace[i].addr + trace[i].n
             ELSE mem[a] = Garbage

\* a zero fill followed by the copy of a nested type's image
C5_Witness ==
  /\ call.op = "Initialize" /\ CalledType.initializer_.null
  /\ Initializers(CalledType) = {}
  /\ Len(trace) = 3
  /\ trace[1].op = "memset"
  /\ trace[2].op = "Descriptor::Initialize"
  /\ trace[3].op = "memcpy"
  /\ mem[call.instance] = 0
  /\ mem[trace[3].addr] # 0

====
